---- MODULE Spec2Model ----
(***************************************************************************)
(* A model of the reactive spreadsheet server of src/src/lib.rs:           *)
(* the Coordinator (Formula map `expressions`, Value map `cell_values`,    *)
(* announcement channel), the Propagation Worker thread, the connection    *)
(* handlers and the recursive evaluator.                                   *)
(*                                                                         *)
(* Every critical section of the code (one `lock().unwrap()` statement)    *)
(* is one atomic step; the steps of different threads interleave freely.   *)
(* The Formula Engine (rsheet_lib::CommandRunner) and the coordinate       *)
(* mapping are external collaborators; they are modelled by tables over a  *)
(* small alphabet of formula texts and cell names.                         *)
(***************************************************************************)
EXTENDS Integers, Sequences, FiniteSets, TLC

\* The number of accepted `set` commands of one execution.
MaxSets == 3

\* The accepted connections (one handler thread each, lib.rs:85-87).
Conns == {"c1", "c2"}

(***************************************************************************)
(* Values (rsheet_lib::CellValue) and the evaluator's panic.               *)
(***************************************************************************)
\* An error message: a base text wrapped by the engine's runtime-error
\* frame once per evaluation it passed through; wraps[i] is the position
\* (in the formula text) of the reference that carried the error.
Msg(base, wraps) == [base |-> base, wraps |-> wraps]
NoMsg == Msg("", <<>>)
\* "Circular dependency detected" (lib.rs:247)
CircularDetected == Msg("Circular dependency detected", <<>>)
\* "Runtime error: Unknown value: \"Circular dependency detected\" (line 1, position 1)"
\* (lib.rs:116, 119)
RuntimeCircular == Msg("Circular dependency detected", <<1>>)
\* "'this' can only be used in functions (line 1, position 7)" (lib.rs:122)
ThisMisuse == Msg("'this' can only be used in functions (line 1, position 7)", <<>>)

ValNone == [tag |-> "None", n |-> 0, msg |-> NoMsg]
ValInt(n) == [tag |-> "Int", n |-> n, msg |-> NoMsg]
ValString(m) == [tag |-> "String", n |-> 0, msg |-> m]
ValError(m) == [tag |-> "Error", n |-> 0, msg |-> m]
\* Not a CellValue: the evaluating thread panicked (`unwrap()` on a parse error).
Panic == [tag |-> "Panic", n |-> 0, msg |-> NoMsg]

(***************************************************************************)
(* Coordinate mapping and the parts of a variable name.  A variable name   *)
(* is the sequence of its parts as `split('_')` yields them: <<"A1">> is   *)
(* the plain name A1, <<"A1","A2">> the range name A1_A2.                  *)
(***************************************************************************)
\* parts[i].chars().take_while(|c| c.is_alphabetic()).collect()
LettersOf(part) ==
  CASE part \in {"A1", "A2"} -> "A"
    [] part \in {"B1", "B2"} -> "B"
    [] part = "Z99" -> "Z"
    [] OTHER -> part

\* parts[i][col.len()..]
DigitsOf(part) ==
  CASE part \in {"A1", "B1"} -> "1"
    [] part \in {"A2", "B2"} -> "2"
    [] part = "Z99" -> "99"
    [] OTHER -> ""

ParseError == -1
\* str::parse::<u32>()
ParseU32(text) ==
  CASE text = "1" -> 1
    [] text = "2" -> 2
    [] text = "99" -> 99
    [] OTHER -> ParseError

column_name_to_number(letters) ==
  CASE letters = "A" -> 0
    [] letters = "B" -> 1
    [] letters = "Z" -> 25
    [] OTHER -> 26

column_number_to_name(col) ==
  CASE col = 0 -> "A"
    [] col = 1 -> "B"
    [] col = 25 -> "Z"
    [] OTHER -> "?"

\* format!("{}{}", column_number_to_name(col), row)
FormatCell(col, row) ==
  LET c == column_number_to_name(col) IN
  CASE c = "A" /\ row = 1 -> "A1"
    [] c = "A" /\ row = 2 -> "A2"
    [] c = "B" /\ row = 1 -> "B1"
    [] c = "B" /\ row = 2 -> "B2"
    [] c = "Z" /\ row = 99 -> "Z99"
    [] OTHER -> "?"

\* var_name.contains("sum"), var_name.contains("sleep"): no variable name of
\* the alphabet contains either text.
ContainsSum(name) == FALSE
ContainsSleep(name) == FALSE

\* var_name.contains('_') && (!var_name.contains("sum") || !var_name.contains("sleep"))
IsRangeName(name) ==
  Len(name) > 1 /\ (~ContainsSum(name) \/ ~ContainsSleep(name))

(***************************************************************************)
(* The Formula Engine: CommandRunner::new(text).find_variables() and       *)
(* .run(&variables).  A formula text denotes  k + the sum of its           *)
(* variables; `pos` gives the position of each variable in the text.       *)
(***************************************************************************)
Formula(vars, k, pos) == [vars |-> vars, k |-> k, pos |-> pos]

CommandRunnerNew(text) ==
  CASE text = "1" -> Formula(<<>>, 1, <<>>)
    [] text = "5" -> Formula(<<>>, 5, <<>>)
    [] text = "A1" -> Formula(<< <<"A1">> >>, 0, <<1>>)
    [] text = "B1" -> Formula(<< <<"B1">> >>, 0, <<1>>)
    [] text = "A1+1" -> Formula(<< <<"A1">> >>, 1, <<1>>)
    [] text = "B2" -> Formula(<< <<"B2">> >>, 0, <<1>>)
    [] text = "A2+B1" -> Formula(<< <<"A2">>, <<"B1">> >>, 0, <<1, 4>>)
    [] text = "sum(A1_A2)" -> Formula(<< <<"A1", "A2">> >>, 0, <<5>>)
    [] text = "sum(A1_B1)" -> Formula(<< <<"A1", "B1">> >>, 0, <<5>>)
    [] text = "sum(A1_B2)" -> Formula(<< <<"A1", "B2">> >>, 0, <<5>>)
    [] text = "a_b" -> Formula(<< <<"a", "b">> >>, 0, <<1>>)
    [] OTHER -> Formula(<<>>, 0, <<>>)

find_variables(text) == CommandRunnerNew(text).vars

\* CellArgument::Value / Vector / Matrix; `items` holds the value, the
\* sequence of values, or the sequence of rows.
ArgValue(v) == [kind |-> "Value", items |-> <<v>>]
ArgVector(vs) == [kind |-> "Vector", items |-> vs]
ArgMatrix(rows) == [kind |-> "Matrix", items |-> rows]
ArgPanic == [kind |-> "Panic", items |-> <<>>]

RECURSIVE Concat(_)
Concat(seqs) == IF seqs = <<>> THEN <<>> ELSE Head(seqs) \o Concat(Tail(seqs))

\* The values an argument carries, in order.
Elements(arg) == IF arg.kind = "Matrix" THEN Concat(arg.items) ELSE arg.items

RECURSIVE SumInts(_)
SumInts(vs) == IF vs = <<>> THEN 0 ELSE Head(vs).n + SumInts(Tail(vs))

\* The engine's error for an operand that is no number.
EngineTypeError == Msg("engine: operand is not a number", <<>>)

\* The result of evaluating the formula with its variables bound to `args`
\* (args[i] is the binding of variable i): a reference bound to an Error
\* value raises the engine's runtime error naming that value at the
\* reference's position; a formula that is one bare reference yields the
\* bound value; otherwise the operands are added.
RunFormula(f, args) ==
  LET all == Concat([j \in 1..Len(args) |-> Elements(args[j])])
      errs == {j \in 1..Len(args) :
                 \E e \in 1..Len(Elements(args[j])) : Elements(args[j])[e].tag = "Error"}
  IN IF errs # {}
       THEN LET j == CHOOSE x \in errs : \A y \in errs : x <= y
                es == Elements(args[j])
                e == CHOOSE x \in 1..Len(es) :
                       /\ es[x].tag = "Error"
                       /\ \A y \in 1..Len(es) : es[y].tag = "Error" => x <= y
            IN ValError(Msg(es[e].msg.base, Append(es[e].msg.wraps, f.pos[j])))
     ELSE IF Len(args) = 1 /\ args[1].kind = "Value" /\ f.k = 0
       THEN args[1].items[1]
     ELSE IF \E e \in 1..Len(all) : all[e].tag # "Int"
       THEN ValError(EngineTypeError)
     ELSE ValInt(f.k + SumInts(all))

Run(text, args) == RunFormula(CommandRunnerNew(text), args)

(***************************************************************************)
(* The evaluator (lib.rs:151-260).  `expressions` is a function from the   *)
(* cell names that have a formula to their formula texts.                  *)
(***************************************************************************)
\* cells.get(&cell_name).cloned().unwrap_or(CellValue::None)
get_cell_value(cells, col, row) ==
  LET cell_name == FormatCell(col, row)
  IN IF cell_name \in DOMAIN cells THEN cells[cell_name] ELSE ValNone

\* (a..=b).map(f).collect()
RangeMap(a, b, F(_)) == [i \in 1..(IF b >= a THEN b - a + 1 ELSE 0) |-> F(a + i - 1)]

get_vector_value(cells, col_start, row_start, col_end, row_end) ==
  IF col_start = col_end
    THEN LET AtRow(row) == get_cell_value(cells, col_start, row)
         IN RangeMap(row_start, row_end, AtRow)
    ELSE LET AtCol(col) == get_cell_value(cells, col, row_start)
         IN RangeMap(col_start, col_end, AtCol)

\* A matrix with the columns as the outer dimension.
get_matrix_value_Transposed(cells, col_start, row_start, col_end, row_end) ==
  LET Col(col) == LET AtRow(row) == get_cell_value(cells, col, row)
                  IN RangeMap(row_start, row_end, AtRow)
  IN RangeMap(col_start, col_end, Col)

get_matrix_value(cells, col_start, row_start, col_end, row_end) ==
  LET Row(row) == LET AtCol(col) == get_cell_value(cells, col, row)
                  IN RangeMap(col_start, col_end, AtCol)
  IN RangeMap(row_start, row_end, Row)

RECURSIVE calculate_cell_value(_, _, _)
RECURSIVE calculate_variables(_, _, _)

\* The binding of one variable name (the closure of lib.rs:199-237).
calculate_argument(expressions, var_name, visited) ==
  IF IsRangeName(var_name)
    THEN LET start_col == LettersOf(var_name[1])
             start_row == ParseU32(DigitsOf(var_name[1]))
             end_col == LettersOf(var_name[2])
             end_row == ParseU32(DigitsOf(var_name[2]))
             col_start == column_name_to_number(start_col)
             col_end == column_name_to_number(end_col)
             cells == [name \in DOMAIN expressions |->
                         calculate_cell_value(expressions, name, visited)]
         IN IF start_row = ParseError \/ end_row = ParseError
              THEN ArgPanic
            ELSE IF \E name \in DOMAIN cells : cells[name] = Panic
              THEN ArgPanic
            ELSE IF col_start = col_end \/ start_row = end_row
              THEN ArgVector(get_vector_value(cells, col_start, start_row, col_end, end_row))
            ELSE ArgMatrix(get_matrix_value(cells, col_start, start_row, col_end, end_row))
    ELSE LET value == calculate_cell_value(expressions, var_name[1], visited)
         IN IF value = Panic THEN ArgPanic ELSE ArgValue(value)

\* The bindings of the variables of `expression`, in find_variables' order.
calculate_variables(expressions, expression, visited) ==
  LET vars == find_variables(expression)
  IN [i \in 1..Len(vars) |-> calculate_argument(expressions, vars[i], visited)]

calculate_cell_value(expressions, cell_name, visited) ==
  IF cell_name \in visited
    THEN ValError(CircularDetected)
  ELSE IF cell_name \in DOMAIN expressions
    THEN LET expression == expressions[cell_name]
             variables == calculate_variables(expressions, expression,
                                              visited \cup {cell_name})
         IN IF \E i \in 1..Len(variables) : variables[i] = ArgPanic
              THEN Panic
              ELSE Run(expression, variables)
  ELSE ValNone

\* A top-level evaluation: a fresh, empty Visited set (lib.rs:41, 56).
Resolve(expressions, cell_name) == calculate_cell_value(expressions, cell_name, {})

(***************************************************************************)
(* Wire lines.  A line is the sequence of its space-separated tokens       *)
(* (after `trim()`); a formula text is one token.                          *)
(***************************************************************************)
\* The lines the clients of one execution send: an execution draws its
\* lines from one of these workloads.
PropagationLines ==
  { <<"set", "A1", "1">>, <<"set", "A1", "5">>, <<"set", "A2", "A1+1">>,
    <<"get", "A1">>, <<"get", "A2">> }
CycleLines ==
  { <<"set", "A1", "1">>, <<"set", "A1", "B1">>, <<"set", "B1", "A1">>,
    <<"set", "A1", "A1">>, <<"get", "A1">>, <<"get", "B1">> }
RangeLines ==
  { <<"set", "A1", "1">>, <<"set", "B1", "sum(A1_A2)">>, <<"set", "B1", "a_b">>,
    <<"get", "A2">>, <<"get", "B1">> }
MalformedLines ==
  { <<"set", "A1", "1">>, <<"get", "A1">>, <<"get", "Z99">>, <<"get">>,
    <<"get", "A1", "B1">>, <<"set">>, <<"set", "A1">>, <<"put", "A1", "1">>,
    <<>> }
\* A write to a cell and a write to a cell that depends on it.
SettleLines == { <<"set", "A1", "5">>, <<"set", "A2", "A1+1">> }
\* Writes to three cells, so that a cell can be added during a sweep of two.
FrameLines ==
  { <<"set", "A1", "1">>, <<"set", "A2", "A1+1">>, <<"set", "B1", "5">> }
Workloads == {PropagationLines, CycleLines, RangeLines, MalformedLines, FrameLines}
Lines == UNION Workloads

\* The text that the tokens spell, joined by single spaces.
JoinSpaces(tokens) ==
  CASE tokens = <<>> -> ""
    [] Len(tokens) = 1 -> tokens[1]
    [] tokens = <<"A1", "B1">> -> "A1 B1"
    [] OTHER -> "?"

\* msg.trim().splitn(2, ' ').collect(): the first token and, when there is
\* one, the remainder (kept as its tokens).  The empty line yields [""].
SplitN2(tokens) ==
  IF tokens = <<>> THEN << <<"">> >>
  ELSE IF Len(tokens) = 1 THEN << <<tokens[1]>> >>
  ELSE << <<tokens[1]>>, Tail(tokens) >>

(***************************************************************************)
(* Replies (rsheet_lib::replies::Reply).                                   *)
(***************************************************************************)
ReplyValue(cell_name, value) ==
  [kind |-> "Value", cell |-> cell_name, val |-> value, text |-> ""]
ReplyError(text) ==
  [kind |-> "Error", cell |-> "", val |-> ValNone, text |-> text]

\* A get that replies with a value that names no cell.
GetReplyUnnamed(cell_name, cell_value) == ReplyValue("", cell_value)

\* The `match cell_value` of lib.rs:115-129.
GetReply(cell_name, cell_value) ==
  IF cell_value.tag = "String" /\ cell_value.msg = RuntimeCircular
    THEN ReplyError("Circular dependency")
  ELSE IF cell_value.tag = "Error" /\ cell_value.msg = RuntimeCircular
    THEN ReplyError("Circular dependency")
  ELSE IF cell_value.tag = "String" /\ cell_value.msg = ThisMisuse
    THEN ReplyError("this err")
  ELSE IF cell_value.tag = "String" /\ cell_value.msg = CircularDetected
    THEN ReplyError("Circular dependency")
  ELSE ReplyValue(cell_name, cell_value)

(***************************************************************************)
(* State.                                                                  *)
(***************************************************************************)
VARIABLES
  workload,     \* the lines the clients of this execution send
  expressions,  \* Coordinator.expressions: cell name -> formula text
  cell_values,  \* Coordinator.cell_values: cell name -> value
  poisoned,     \* the `expressions` mutex is poisoned (a holder panicked)
  queue,        \* the announcements in the channel
  wpc,          \* the worker: "recv", "snapshot", "eval", "store", "dead"
  wcell,        \* the worker's the_cell_name
  wsnap,        \* the worker's snapshot of expressions
  wtodo,        \* the keys of the snapshot not yet iterated
  wname,        \* the key whose value the worker is about to store
  wval,         \* that value
  hpc,          \* each handler: "read", "set_eval", "set_locked", "set_store",
                \* "set_send", "dead"
  hcell,        \* set_cell's cell_name
  hval,         \* set_cell's value
  elock,        \* the thread that holds the `expressions` mutex, "" if none
  nsets,        \* history: the accepted sets so far
  announced,    \* history: every announcement sent, in order
  swept,        \* history: the_cell_name of every sweep started, in order
  lastSet,      \* history: the accepted set read last
  last,         \* history: the line handled last and what was replied
  estack,       \* one evaluation, step by step: the frames of calculate_cell_value
  evisited,     \* that evaluation's `visited`
  ectl          \* that evaluation's point of control

vars == <<workload, expressions, cell_values, poisoned, queue, wpc, wcell, wsnap, wtodo,
          wname, wval, hpc, hcell, hval, elock, nsets, announced, swept, lastSet, last,
          estack, evisited, ectl>>

wvars == <<wpc, wcell, wsnap, wtodo, wname, wval>>
hvars == <<hpc, hcell, hval>>
evars == <<estack, evisited, ectl>>

EmptyMap == [x \in {} |-> x]

\* HashMap::insert
Insert(map, key, value) ==
  [x \in (DOMAIN map) \cup {key} |-> IF x = key THEN value ELSE map[x]]

\* No handler is inside set_cell.
NoSetRunning == \A h \in Conns : hpc[h] \in {"read", "dead"}

NoSet ==
  [conn |-> "", cell |-> "", text |-> "", done |-> FALSE, clean |-> FALSE,
   rep |-> FALSE, val |-> ValNone, prev |-> ValNone]
NoLine == [line |-> <<>>, out |-> <<>>, quiet |-> FALSE, panicked |-> FALSE]

\* Mutex::lock(): the call returns once no thread holds the mutex.
CanLock(owner) == owner = ""

\* No evaluation is being followed step by step.
EvalIdle == [op |-> "idle", cell |-> "", val |-> ValNone, entry |-> {}]

\* The state after Coordinator::new and the spawning of the threads.
Started ==
  /\ expressions = EmptyMap
  /\ cell_values = EmptyMap
  /\ poisoned = FALSE
  /\ queue = <<>>
  /\ wpc = "recv"
  /\ wcell = ""
  /\ wsnap = EmptyMap
  /\ wtodo = {}
  /\ wname = ""
  /\ wval = ValNone
  /\ hpc = [h \in Conns |-> "read"]
  /\ hcell = [h \in Conns |-> ""]
  /\ hval = [h \in Conns |-> ValNone]
  /\ elock = ""
  /\ nsets = 0
  /\ announced = <<>>
  /\ swept = <<>>
  /\ estack = <<>>
  /\ evisited = {}
  /\ ectl = EvalIdle
  /\ lastSet = NoSet
  /\ last = NoLine

Init == workload \in Workloads /\ Started

\* The same state with clients that write a cell and a cell that depends
\* on it.
SettleInit == workload = SettleLines /\ Started

(***************************************************************************)
(* The connection handler (lib.rs:94-149) and Coordinator::get_cell /      *)
(* set_cell (lib.rs:27-49).                                                *)
(***************************************************************************)
\* A get_cell that defaults to a number instead of the empty value.
get_cell_DefaultZero(cell_name) ==
  IF cell_name \in DOMAIN cell_values THEN cell_values[cell_name] ELSE ValInt(0)

\* Coordinator::get_cell
get_cell(cell_name) ==
  IF cell_name \in DOMAIN cell_values THEN cell_values[cell_name] ELSE ValNone

\* What `last` records of a handled line.
Handled(line, out, panicked) ==
  [line |-> line, out |-> out, quiet |-> NoSetRunning, panicked |-> panicked]

\* A line that only replies.
ReplyOnly(line, reply) ==
  /\ last' = Handled(line, <<reply>>, FALSE)
  /\ UNCHANGED <<expressions, cell_values, poisoned, queue, wvars, hvars, elock,
                 nsets, announced, lastSet>>

\* The first statement of set_cell (lib.rs:37-40): lock `expressions`
\* (panicking if it is poisoned) and insert the formula text.
SetInsert(h, line, cell_name, expression) ==
  /\ nsets < MaxSets
  /\ CanLock(elock)
  /\ IF poisoned
       THEN /\ hpc' = [hpc EXCEPT ![h] = "dead"]
            /\ last' = Handled(line, <<>>, TRUE)
            /\ UNCHANGED <<expressions, hcell, nsets, lastSet>>
       ELSE /\ expressions' = Insert(expressions, cell_name, expression)
            /\ hpc' = [hpc EXCEPT ![h] = "set_eval"]
            /\ hcell' = [hcell EXCEPT ![h] = cell_name]
            /\ nsets' = nsets + 1
            /\ last' = Handled(line, <<>>, FALSE)
            /\ LET rep == /\ NoSetRunning
                          /\ lastSet.done
                          /\ lastSet.clean
                          /\ lastSet.cell = cell_name
                          /\ lastSet.text = expression
               IN lastSet' = [conn |-> h, cell |-> cell_name, text |-> expression,
                              done |-> FALSE, clean |-> NoSetRunning, rep |-> rep,
                              val |-> ValNone,
                              prev |-> IF rep THEN lastSet.val ELSE ValNone]
  /\ UNCHANGED <<cell_values, poisoned, queue, wvars, hval, elock, announced>>

\* A set that takes any remainder, even none, as formula text.
IsEmptyNever(expression) == FALSE

\* expression.is_empty() (lib.rs:139)
IsEmpty(expression) == expression = ""

\* One turn of the handler's loop: read a line and act on it.
HandleConnection(h, line) ==
  /\ hpc[h] = "read"
  /\ UNCHANGED <<workload, evars, swept>>
  /\ LET parts == SplitN2(line)
         first == parts[1][1]
     IN IF first = "get"
          THEN IF Len(parts) # 2
                 THEN ReplyOnly(line, ReplyError("Invalid get command"))
                 ELSE LET cell_name == JoinSpaces(parts[2])
                      IN ReplyOnly(line, GetReply(cell_name, get_cell(cell_name)))
        ELSE IF first = "set"
          THEN IF Len(parts) # 2
                 THEN ReplyOnly(line, ReplyError("Invalid set command"))
                 ELSE LET cell_name == parts[2][1]
                          expression == JoinSpaces(Tail(parts[2]))
                      IN IF IsEmpty(expression)
                           THEN ReplyOnly(line, ReplyError("Invalid command"))
                           ELSE SetInsert(h, line, cell_name, expression)
        ELSE ReplyOnly(line, ReplyError("Invalid command"))

\* A set_cell that evaluates without taking the `expressions` lock.
SetEvalNoLock(h) ==
  /\ hpc[h] = "set_eval"
  /\ hpc' = [hpc EXCEPT ![h] = "set_locked"]
  /\ UNCHANGED <<workload, evars, expressions, cell_values, poisoned, queue, wvars, hcell,
                 hval, elock, nsets, announced, swept, lastSet, last>>

\* The second statement of set_cell (lib.rs:41-43) takes the `expressions`
\* lock (panicking if it is poisoned) and keeps it while it evaluates.
SetEvalLock(h) ==
  /\ hpc[h] = "set_eval"
  /\ CanLock(elock)
  /\ IF poisoned
       THEN /\ hpc' = [hpc EXCEPT ![h] = "dead"]
            /\ UNCHANGED elock
       ELSE /\ hpc' = [hpc EXCEPT ![h] = "set_locked"]
            /\ elock' = h
  /\ UNCHANGED <<workload, evars, expressions, cell_values, poisoned, queue, wvars, hcell,
                 hval, nsets, announced, swept, lastSet, last>>

\* A set_cell that keeps the guard of the `expressions` lock until it
\* returns, and so stores under both locks.
SetEvalKeepLock(h) ==
  /\ hpc[h] = "set_locked"
  /\ LET value == Resolve(expressions, hcell[h])
     IN IF value = Panic
          THEN /\ poisoned' = TRUE
               /\ hpc' = [hpc EXCEPT ![h] = "dead"]
               /\ elock' = ""
               /\ UNCHANGED hval
          ELSE /\ hval' = [hval EXCEPT ![h] = value]
               /\ hpc' = [hpc EXCEPT ![h] = "set_store"]
               /\ UNCHANGED <<poisoned, elock>>
  /\ UNCHANGED <<workload, evars, expressions, cell_values, queue, wvars, hcell, nsets,
                 announced, swept, lastSet, last>>

\* The evaluation of the cell under the `expressions` lock and the lock's
\* release at the end of the statement (lib.rs:42-43); a panic of the
\* evaluator poisons the lock.
SetEval(h) ==
  /\ hpc[h] = "set_locked"
  /\ LET value == Resolve(expressions, hcell[h])
     IN IF value = Panic
          THEN /\ poisoned' = TRUE
               /\ hpc' = [hpc EXCEPT ![h] = "dead"]
               /\ UNCHANGED hval
          ELSE /\ hval' = [hval EXCEPT ![h] = value]
               /\ hpc' = [hpc EXCEPT ![h] = "set_store"]
               /\ UNCHANGED poisoned
  /\ elock' = ""
  /\ UNCHANGED <<workload, evars, expressions, cell_values, queue, wvars, hcell, nsets,
                 announced, swept, lastSet, last>>

\* The third statement of set_cell (lib.rs:44-47).
SetStore(h) ==
  /\ hpc[h] = "set_store"
  /\ cell_values' = Insert(cell_values, hcell[h], hval[h])
  /\ hpc' = [hpc EXCEPT ![h] = "set_send"]
  /\ lastSet' = IF lastSet.conn = h /\ ~lastSet.done
                  THEN [lastSet EXCEPT !.val = hval[h]]
                  ELSE lastSet
  /\ UNCHANGED <<workload, evars, expressions, poisoned, queue, wvars, hcell, hval, elock,
                 nsets, announced, swept, last>>

\* A set_cell that does not announce a cell whose announcement is the last
\* one sent.
SetSendCoalesced(h) ==
  /\ hpc[h] = "set_send"
  /\ IF wpc = "dead" \/ (announced # <<>> /\ announced[Len(announced)] = hcell[h])
       THEN UNCHANGED <<queue, announced>>
       ELSE /\ queue' = Append(queue, hcell[h])
            /\ announced' = Append(announced, hcell[h])
  /\ hpc' = [hpc EXCEPT ![h] = "read"]
  /\ hcell' = [hcell EXCEPT ![h] = ""]
  /\ hval' = [hval EXCEPT ![h] = ValNone]
  /\ lastSet' = IF lastSet.conn = h /\ ~lastSet.done
                  THEN [lastSet EXCEPT !.done = TRUE]
                  ELSE lastSet
  /\ UNCHANGED <<workload, evars, expressions, cell_values, poisoned, wvars, elock, nsets,
                 swept, last>>

\* The last statement of set_cell (lib.rs:48); the send fails, and is
\* ignored, once the receiver is gone.
SetSend(h) ==
  /\ hpc[h] = "set_send"
  /\ IF wpc = "dead"
       THEN UNCHANGED <<queue, announced>>
       ELSE /\ queue' = Append(queue, hcell[h])
            /\ announced' = Append(announced, hcell[h])
  /\ hpc' = [hpc EXCEPT ![h] = "read"]
  /\ hcell' = [hcell EXCEPT ![h] = ""]
  /\ hval' = [hval EXCEPT ![h] = ValNone]
  /\ lastSet' = IF lastSet.conn = h /\ ~lastSet.done
                  THEN [lastSet EXCEPT !.done = TRUE]
                  ELSE lastSet
  /\ UNCHANGED <<workload, evars, expressions, cell_values, poisoned, wvars, elock, nsets,
                 swept, last>>

(***************************************************************************)
(* The Propagation Worker (lib.rs:75-79) and update_cell_values            *)
(* (lib.rs:51-64).                                                         *)
(***************************************************************************)
WorkerIdle ==
  /\ wpc' = "recv"
  /\ wcell' = ""
  /\ wsnap' = EmptyMap
  /\ wtodo' = {}
  /\ wname' = ""
  /\ wval' = ValNone

\* The worker thread panics: it ends and the channel's receiver is dropped.
WorkerPanic ==
  /\ wpc' = "dead"
  /\ wcell' = ""
  /\ wsnap' = EmptyMap
  /\ wtodo' = {}
  /\ wname' = ""
  /\ wval' = ValNone
  /\ queue' = <<>>

\* expression_update_receiver.recv()
WorkerRecv ==
  /\ wpc = "recv"
  /\ queue # <<>>
  /\ wcell' = Head(queue)
  /\ queue' = Tail(queue)
  /\ wpc' = "snapshot"
  /\ swept' = Append(swept, Head(queue))
  /\ UNCHANGED <<workload, evars, expressions, cell_values, poisoned, wsnap, wtodo, wname,
                 wval, hvars, elock, nsets, announced, lastSet, last>>

\* A sweep whose test is inverted: it writes the_cell_name alone.
RemainingInverted(todo, the_cell_name) == todo \cap {the_cell_name}

\* The keys a sweep still has to write: the loop skips the_cell_name.
Remaining(todo, the_cell_name) == todo \ {the_cell_name}

\* A sweep that keeps the guard of the `expressions` lock instead of a clone.
WorkerSnapshotHolding ==
  /\ wpc = "snapshot"
  /\ CanLock(elock)
  /\ IF poisoned
       THEN WorkerPanic /\ UNCHANGED elock
       ELSE /\ IF Remaining(DOMAIN expressions, wcell) = {}
                 THEN WorkerIdle /\ UNCHANGED elock
                 ELSE /\ wsnap' = expressions
                      /\ wtodo' = DOMAIN expressions
                      /\ wpc' = "eval"
                      /\ elock' = "w"
                      /\ UNCHANGED <<wcell, wname, wval>>
            /\ UNCHANGED queue
  /\ UNCHANGED <<workload, evars, expressions, cell_values, poisoned, hvars, nsets,
                 announced, swept, lastSet, last>>

\* self.expressions.lock().unwrap().clone(): the lock is released at the end
\* of the statement.
WorkerSnapshot ==
  /\ wpc = "snapshot"
  /\ CanLock(elock)
  /\ IF poisoned
       THEN WorkerPanic
       ELSE /\ IF Remaining(DOMAIN expressions, wcell) = {}
                 THEN WorkerIdle
                 ELSE /\ wsnap' = expressions
                      /\ wtodo' = DOMAIN expressions
                      /\ wpc' = "eval"
                      /\ UNCHANGED <<wcell, wname, wval>>
            /\ UNCHANGED queue
  /\ UNCHANGED <<workload, evars, expressions, cell_values, poisoned, hvars, elock, nsets,
                 announced, swept, lastSet, last>>

\* A sweep that evaluates against the shared map instead of its snapshot.
WorkerEvalLive ==
  /\ wpc = "eval"
  /\ \E cell_name \in Remaining(wtodo, wcell) :
       LET value == Resolve(expressions, cell_name)
       IN IF value = Panic
            THEN WorkerPanic
            ELSE /\ wname' = cell_name
                 /\ wval' = value
                 /\ wpc' = "store"
                 /\ UNCHANGED <<wcell, wsnap, wtodo, queue>>
  /\ UNCHANGED <<workload, evars, expressions, cell_values, poisoned, hvars, elock, nsets,
                 announced, swept, lastSet, last>>

\* One iteration's evaluation against the snapshot (lib.rs:54-57); the map
\* is iterated in an arbitrary order.
WorkerEval ==
  /\ wpc = "eval"
  /\ \E cell_name \in Remaining(wtodo, wcell) :
       LET value == Resolve(wsnap, cell_name)
       IN IF value = Panic
            THEN WorkerPanic
            ELSE /\ wname' = cell_name
                 /\ wval' = value
                 /\ wpc' = "store"
                 /\ UNCHANGED <<wcell, wsnap, wtodo, queue>>
  /\ UNCHANGED <<workload, evars, expressions, cell_values, poisoned, hvars, elock, nsets,
                 announced, swept, lastSet, last>>

\* One iteration's store (lib.rs:58-61).
WorkerStore ==
  /\ wpc = "store"
  /\ cell_values' = Insert(cell_values, wname, wval)
  /\ IF Remaining(wtodo \ {wname}, wcell) = {}
       THEN WorkerIdle
       ELSE /\ wtodo' = wtodo \ {wname}
            /\ wname' = ""
            /\ wval' = ValNone
            /\ wpc' = "eval"
            /\ UNCHANGED <<wcell, wsnap>>
  /\ UNCHANGED <<workload, evars, expressions, poisoned, queue, hvars, elock, nsets,
                 announced, swept, lastSet, last>>

WorkerNext == WorkerRecv \/ WorkerSnapshot \/ WorkerEval \/ WorkerStore

SetNext(h) == SetEvalLock(h) \/ SetEval(h) \/ SetStore(h) \/ SetSend(h)

Next ==
  \/ \E h \in Conns : \E line \in workload : HandleConnection(h, line)
  \/ \E h \in Conns : SetEvalLock(h)
  \/ \E h \in Conns : SetEval(h)
  \/ \E h \in Conns : SetStore(h)
  \/ \E h \in Conns : SetSend(h)
  \/ WorkerRecv
  \/ WorkerSnapshot
  \/ WorkerEval
  \/ WorkerStore

Spec == Init /\ [][Next]_vars

\* Every thread that can take a step eventually takes one: the worker and
\* the handlers are running operating-system threads.  The clients write a
\* cell and a cell that depends on it.
FairSpec ==
  /\ SettleInit
  /\ [][Next]_vars
  /\ WF_vars(WorkerNext)
  /\ \A h \in Conns : WF_vars(SetNext(h))

(***************************************************************************)
(* One evaluation, step by step (lib.rs:190-260): the recursion of         *)
(* calculate_cell_value and calculate_variables as a stack of frames, with *)
(* `visited` as the one set that every call of the evaluation shares.      *)
(***************************************************************************)
\* The cells and, for each, the formula texts an evaluated Formula map may
\* hold for it.
EvalCells == {"A1", "A2", "B1", "B2"}
EvalTexts(cell) ==
  CASE cell = "A1" -> {"1", "A1", "B1", "A2+B1", "sum(A1_A2)", "sum(A1_B2)"}
    [] cell = "A2" -> {"1", "A1", "B2", "A1+1"}
    [] cell = "B1" -> {"5", "A1", "B2", "sum(A1_A2)", "a_b"}
    [] cell = "B2" -> {"1", "A1", "sum(A1_B1)", "a_b"}

\* The Formula maps evaluated: any subset of the cells, each with one of its
\* texts.
EvalFormulas ==
  UNION { {m \in [cells -> UNION {EvalTexts(c) : c \in cells}] :
             \A c \in cells : m[c] \in EvalTexts(c)} : cells \in SUBSET EvalCells }

\* The frame of one call of calculate_cell_value that has a formula: its
\* cell, `visited` as it was on entry, the variables still to bind, the
\* bindings made, and, while a range is being bound, the names of
\* expressions.iter() still to resolve, the one being resolved and the
\* `cells` map collected so far.
Frame(cell, entry, todo) ==
  [cell |-> cell, entry |-> entry, todo |-> todo, args |-> <<>>,
   inrange |-> FALSE, rnames |-> {}, rcur |-> "", rcells |-> EmptyMap]

EvalCalling(cell) == [op |-> "call", cell |-> cell, val |-> ValNone, entry |-> {}]
EvalReturning(cell, val, entry) == [op |-> "ret", cell |-> cell, val |-> val, entry |-> entry]
EvalInFrame == [op |-> "frame", cell |-> "", val |-> ValNone, entry |-> {}]
EvalDone(cell, val) == [op |-> "done", cell |-> cell, val |-> val, entry |-> {}]
EvalPanicked == [op |-> "panic", cell |-> "", val |-> ValNone, entry |-> {}]

Top == estack[Len(estack)]
Pop == SubSeq(estack, 1, Len(estack) - 1)
SetTop(frame) == [estack EXCEPT ![Len(estack)] = frame]

mvars == <<workload, expressions, cell_values, poisoned, queue, wvars, hvars, elock, nsets,
           announced, swept, lastSet, last>>

\* A Formula map and no evaluation started.
EvalInit ==
  /\ workload = {}
  /\ expressions \in EvalFormulas
  /\ cell_values = EmptyMap
  /\ poisoned = FALSE
  /\ queue = <<>>
  /\ wpc = "recv"
  /\ wcell = ""
  /\ wsnap = EmptyMap
  /\ wtodo = {}
  /\ wname = ""
  /\ wval = ValNone
  /\ hpc = [h \in Conns |-> "read"]
  /\ hcell = [h \in Conns |-> ""]
  /\ hval = [h \in Conns |-> ValNone]
  /\ elock = ""
  /\ nsets = 0
  /\ announced = <<>>
  /\ swept = <<>>
  /\ lastSet = NoSet
  /\ last = NoLine
  /\ estack = <<>>
  /\ evisited = {}
  /\ ectl = EvalIdle

\* A top-level call with a fresh, empty `visited` (lib.rs:41-43, 56-57).
EvalStart(cell_name) ==
  /\ ectl.op = "idle"
  /\ evisited' = {}
  /\ estack' = <<>>
  /\ ectl' = EvalCalling(cell_name)
  /\ UNCHANGED mvars

\* A call that finds its cell in `visited` and returns None.
EvalCallCycleNone ==
  /\ ectl.op = "call"
  /\ LET cell_name == ectl.cell
     IN IF cell_name \in evisited
          THEN /\ ectl' = EvalReturning(cell_name, ValNone, evisited)
               /\ UNCHANGED <<estack, evisited>>
        ELSE IF cell_name \in DOMAIN expressions
          THEN /\ evisited' = evisited \cup {cell_name}
               /\ estack' = Append(estack, Frame(cell_name, evisited,
                                                 find_variables(expressions[cell_name])))
               /\ ectl' = EvalInFrame
        ELSE /\ ectl' = EvalReturning(cell_name, ValNone, evisited)
             /\ UNCHANGED <<estack, evisited>>
  /\ UNCHANGED mvars

\* The entry of calculate_cell_value (lib.rs:246-252, 257-259): return the
\* error if the cell is in `visited`, None if it has no formula; otherwise
\* insert it into `visited` and go on to bind the formula's variables.
EvalCall ==
  /\ ectl.op = "call"
  /\ LET cell_name == ectl.cell
     IN IF cell_name \in evisited
          THEN /\ ectl' = EvalReturning(cell_name, ValError(CircularDetected), evisited)
               /\ UNCHANGED <<estack, evisited>>
        ELSE IF cell_name \in DOMAIN expressions
          THEN /\ evisited' = evisited \cup {cell_name}
               /\ estack' = Append(estack, Frame(cell_name, evisited,
                                                 find_variables(expressions[cell_name])))
               /\ ectl' = EvalInFrame
        ELSE /\ ectl' = EvalReturning(cell_name, ValNone, evisited)
             /\ UNCHANGED <<estack, evisited>>
  /\ UNCHANGED mvars

\* The next variable of the formula (lib.rs:199-215, 233): a range name has
\* its rows parsed, which panics on text that is no number, and then every
\* name of the Formula map is to be resolved; a plain name is resolved.
EvalVariable ==
  /\ ectl.op = "frame"
  /\ ~Top.inrange
  /\ Top.todo # <<>>
  /\ LET var_name == Head(Top.todo)
     IN IF IsRangeName(var_name)
          THEN IF \/ ParseU32(DigitsOf(var_name[1])) = ParseError
                  \/ ParseU32(DigitsOf(var_name[2])) = ParseError
                 THEN /\ ectl' = EvalPanicked
                      /\ UNCHANGED estack
                 ELSE /\ estack' = SetTop([Top EXCEPT !.inrange = TRUE,
                                                      !.rnames = DOMAIN expressions,
                                                      !.rcells = EmptyMap])
                      /\ UNCHANGED ectl
          ELSE /\ ectl' = EvalCalling(var_name[1])
               /\ UNCHANGED estack
  /\ UNCHANGED <<mvars, evisited>>

\* One name of expressions.iter(), in the map's arbitrary order
\* (lib.rs:216-224).
EvalRangeCell ==
  /\ ectl.op = "frame"
  /\ Top.inrange
  /\ \E name \in Top.rnames :
       /\ estack' = SetTop([Top EXCEPT !.rcur = name])
       /\ ectl' = EvalCalling(name)
  /\ UNCHANGED <<mvars, evisited>>

\* The binding of a range from the collected `cells` (lib.rs:225-231).
RangeBinding(var_name, cells) ==
  LET start_row == ParseU32(DigitsOf(var_name[1]))
      end_row == ParseU32(DigitsOf(var_name[2]))
      col_start == column_name_to_number(LettersOf(var_name[1]))
      col_end == column_name_to_number(LettersOf(var_name[2]))
  IN IF col_start = col_end \/ start_row = end_row
       THEN ArgVector(get_vector_value(cells, col_start, start_row, col_end, end_row))
       ELSE ArgMatrix(get_matrix_value(cells, col_start, start_row, col_end, end_row))

EvalRangeBind ==
  /\ ectl.op = "frame"
  /\ Top.inrange
  /\ Top.rnames = {}
  /\ estack' = SetTop([Top EXCEPT !.args = Append(@, RangeBinding(Head(Top.todo), Top.rcells)),
                                  !.todo = Tail(@),
                                  !.inrange = FALSE,
                                  !.rcur = "",
                                  !.rcells = EmptyMap])
  /\ UNCHANGED <<mvars, evisited, ectl>>

\* A call has returned: to the caller of the evaluation, or into the frame
\* that made it, as an entry of `cells` (lib.rs:219-222) or as the binding
\* of a plain name (lib.rs:233-234).
EvalReturn ==
  /\ ectl.op = "ret"
  /\ IF estack = <<>>
       THEN /\ ectl' = EvalDone(ectl.cell, ectl.val)
            /\ UNCHANGED estack
       ELSE /\ ectl' = EvalInFrame
            /\ IF Top.inrange
                 THEN estack' = SetTop([Top EXCEPT !.rcells = Insert(@, Top.rcur, ectl.val),
                                                   !.rnames = @ \ {Top.rcur},
                                                   !.rcur = ""])
                 ELSE estack' = SetTop([Top EXCEPT !.args = Append(@, ArgValue(ectl.val)),
                                                   !.todo = Tail(@)])
  /\ UNCHANGED <<mvars, evisited>>

\* A call that leaves its cell in `visited` when it returns.
EvalFinishKeepsVisited ==
  /\ ectl.op = "frame"
  /\ ~Top.inrange
  /\ Top.todo = <<>>
  /\ ectl' = EvalReturning(Top.cell, Run(expressions[Top.cell], Top.args), Top.entry)
  /\ estack' = Pop
  /\ UNCHANGED <<mvars, evisited>>

\* All variables are bound (lib.rs:253-256): remove the cell from `visited`
\* and return what the engine computes from the bindings.
EvalFinish ==
  /\ ectl.op = "frame"
  /\ ~Top.inrange
  /\ Top.todo = <<>>
  /\ evisited' = evisited \ {Top.cell}
  /\ ectl' = EvalReturning(Top.cell, Run(expressions[Top.cell], Top.args), Top.entry)
  /\ estack' = Pop
  /\ UNCHANGED mvars

EvalNext ==
  \/ \E cell_name \in EvalCells : EvalStart(cell_name)
  \/ EvalCall
  \/ EvalVariable
  \/ EvalRangeCell
  \/ EvalRangeBind
  \/ EvalReturn
  \/ EvalFinish

EvalSpec == EvalInit /\ [][EvalNext]_vars

\* The evaluating thread runs.
EvalFairSpec == EvalSpec /\ WF_vars(EvalNext)

(***************************************************************************)
(* Properties.                                                             *)
(***************************************************************************)
\* The line handled last is `get <cell>` for one cell name.
LastIsGet == Len(last.line) = 2 /\ last.line[1] = "get"
LastGetCell == last.line[2]

\* The line handled last is a get of the cell of the accepted set read last,
\* that set was read while no other set was running and had returned when
\* the get was read.
GetAfterOwnSet ==
  /\ LastIsGet
  /\ last.quiet
  /\ lastSet.done
  /\ lastSet.clean
  /\ lastSet.cell = LastGetCell

\* C1: read-your-write freshness.  Once `set c f` has returned and no
\* further set is executed, a `get c` replies with the value of f evaluated
\* against the Formula set, whatever sweeps were pending or in progress.
C1_ReadYourWrite ==
  GetAfterOwnSet =>
    last.out = <<GetReply(LastGetCell, Resolve(expressions, LastGetCell))>>

\* Nothing is running or pending: no handler is inside set_cell, the channel
\* is empty and the worker waits in recv(); no thread has panicked.
Quiescent ==
  /\ NoSetRunning
  /\ queue = <<>>
  /\ wpc = "recv"
  /\ ~poisoned

\* C2: eventual consistency at quiescence.  Once the announcement queue is
\* empty and the worker is idle, the stored value of every cell of the
\* Formula map is the result of resolving its formula against the final
\* Formula set.
C2_QuiescentConsistency ==
  Quiescent =>
    \A c \in DOMAIN expressions :
      c \in DOMAIN cell_values /\ cell_values[c] = Resolve(expressions, c)

\* The formula text mentions the cell: as a plain name, or inside a range.
References(text, cell) ==
  \E i \in 1..Len(find_variables(text)) :
    LET var == find_variables(text)[i]
    IN IF IsRangeName(var)
         THEN /\ column_name_to_number(LettersOf(var[1])) <= column_name_to_number(LettersOf(cell))
              /\ column_name_to_number(LettersOf(cell)) <= column_name_to_number(LettersOf(var[2]))
              /\ ParseU32(DigitsOf(var[1])) <= ParseU32(DigitsOf(cell))
              /\ ParseU32(DigitsOf(cell)) <= ParseU32(DigitsOf(var[2]))
         ELSE var = <<cell>>

\* The last write has been issued and has returned: no further set follows,
\* and it was read while no other set was running.
LastWriteReturned ==
  /\ nsets = MaxSets
  /\ lastSet.done
  /\ lastSet.clean
  /\ NoSetRunning
  /\ ~poisoned

\* Every cell whose formula references the cell written last holds the value
\* of its formula resolved against the Formula set.
DependentsFresh ==
  \A d \in DOMAIN expressions \ {lastSet.cell} :
    References(expressions[d], lastSet.cell) =>
      GetReply(d, get_cell(d)) = GetReply(d, Resolve(expressions, d))

WellFormedSet(line) ==
  /\ Len(line) = 3
  /\ line[1] = "set"
  /\ \A i \in 1..Len(find_variables(line[3])) :
       LET var == find_variables(line[3])[i]
       IN IsRangeName(var) =>
            /\ ParseU32(DigitsOf(var[1])) # ParseError
            /\ ParseU32(DigitsOf(var[2])) # ParseError

\* C4: crash isolation.  No command of one connection makes a well-formed
\* command of another connection fail or end its handler, nor stops the
\* worker.
C4_CrashIsolation ==
  /\ wpc # "dead"
  /\ ~(last.panicked /\ WellFormedSet(last.line))

\* C5: self-reference.  After an accepted `set c f` whose formula
\* references c, a get of c replies with the circular-dependency error.
C5_SelfReference ==
  (GetAfterOwnSet /\ References(lastSet.text, lastSet.cell)) =>
    last.out = <<ReplyError("Circular dependency")>>

\* The Formula map holds the two-cell cycle A1 -> B1 -> A1.
TwoCellCycle ==
  /\ {"A1", "B1"} \subseteq DOMAIN expressions
  /\ expressions["A1"] = "B1"
  /\ expressions["B1"] = "A1"

\* C6: indirect cycle.  After `set A1 B1` and `set B1 A1` have both
\* returned, a get of A1 and a get of B1 both reply with the
\* circular-dependency error.
C6_IndirectCycle ==
  (/\ LastIsGet /\ last.quiet /\ LastGetCell \in {"A1", "B1"}
   /\ lastSet.done /\ lastSet.clean /\ TwoCellCycle) =>
    last.out = <<ReplyError("Circular dependency")>>

\* A set without a cell name or without formula text, a get without a cell
\* name, or a line whose first token is neither get nor set.
Malformed(line) ==
  LET first == IF line = <<>> THEN "" ELSE line[1]
  IN \/ first \notin {"get", "set"}
     \/ Len(line) = 1
     \/ first = "set" /\ Len(line) = 2

\* C7: a malformed or unknown command produces exactly one error reply and
\* leaves the Formula map, the Value map and the announcement queue
\* unchanged.
C7_MalformedNoMutation ==
  [][(last' # last /\ Malformed(last'.line)) =>
       /\ Len(last'.out) = 1
       /\ last'.out[1].kind = "Error"
       /\ expressions' = expressions
       /\ cell_values' = cell_values
       /\ queue' = queue]_vars

\* C7's case: a set without formula text was rejected while formulas, values
\* and an announcement were present.
C7_Witness ==
  /\ last.line = <<"set", "A1">>
  /\ last.out = <<ReplyError("Invalid command")>>
  /\ "A1" \in DOMAIN expressions
  /\ "A1" \in DOMAIN cell_values
  /\ queue # <<>>

\* C8: a get line with any number of arguments other than one yields an
\* error reply, never a value reply.
C8_GetArity ==
  (last.line # <<>> /\ last.line[1] = "get" /\ Len(last.line) # 2) =>
    (Len(last.out) = 1 /\ last.out[1].kind = "Error")

\* C9: the cell names of the Value map are a subset of those of the Formula
\* map, and a get of a cell that was never set replies with the empty value.
C9_ValuesHaveFormulas ==
  /\ DOMAIN cell_values \subseteq DOMAIN expressions
  /\ (LastIsGet /\ LastGetCell \notin DOMAIN expressions) =>
       last.out = <<ReplyValue(LastGetCell, ValNone)>>

\* C9's case: A2 was never set, B1's range A1_A2 covers it, a sweep is in
\* progress and a get of A2 was answered.
C9_Witness ==
  /\ LastIsGet /\ LastGetCell = "A2"
  /\ "A2" \notin DOMAIN expressions
  /\ "B1" \in DOMAIN cell_values
  /\ "B1" \in DOMAIN expressions /\ expressions["B1"] = "sum(A1_A2)"
  /\ wpc = "store"

\* C10: idempotence of set.  An accepted set repeated right after it has
\* returned leaves the Formula map unchanged, stores the value the first
\* one stored, and sends a second announcement for the cell.
C10_Idempotent ==
  [][LET h == lastSet'.conn
         c == lastSet'.cell
     IN lastSet'.rep =>
          /\ (hpc[h] = "read" /\ hpc'[h] = "set_eval") =>
               expressions' = expressions
          /\ (hpc[h] = "set_store" /\ hpc'[h] = "set_send") =>
               cell_values'[c] = lastSet'.prev
          /\ (hpc[h] = "set_send" /\ hpc'[h] = "read") =>
               /\ queue' = Append(queue, c)
               /\ Len(announced') >= 2
               /\ announced'[Len(announced')] = c
               /\ announced'[Len(announced') - 1] = c]_vars

\* C10's case: the same accepted set was issued twice in a row and the
\* second one has returned, having stored a number.
C10_Witness ==
  /\ lastSet.rep
  /\ lastSet.done
  /\ lastSet.val.tag = "Int"
  /\ lastSet.val = lastSet.prev
  /\ Len(queue) >= 2

\* The handlers inside set_cell.
SetRunning ==
  {h \in Conns : hpc[h] \in {"set_eval", "set_locked", "set_store", "set_send"}}

IsPrefix(s, t) == Len(s) <= Len(t) /\ SubSeq(t, 1, Len(s)) = s

\* Every accepted set has sent one announcement or is still inside set_cell;
\* the sweeps started are, in order, a prefix of the announcements sent, and
\* the channel holds the rest.
AnnouncementsAccounted ==
  /\ Len(announced) + Cardinality(SetRunning) = nsets
  /\ IsPrefix(swept, announced)
  /\ wpc # "dead" => announced = swept \o queue

\* C11: sweep sequence equals announcement sequence.  Every accepted set
\* enqueues exactly one announcement naming its cell, no other command
\* enqueues one, and the single worker starts its sweeps one at a time, for
\* the announcements in the order they were enqueued, none skipped, merged
\* or reordered.
C11_SweepsFollowAnnouncements ==
  /\ []AnnouncementsAccounted
  /\ [][/\ \A h \in Conns :
             (hpc[h] = "set_send" /\ hpc'[h] = "read") =>
               /\ announced' = Append(announced, hcell[h])
               /\ queue' = Append(queue, hcell[h])
        /\ announced' # announced =>
             \E h \in Conns : hpc[h] = "set_send" /\ hpc'[h] = "read"
        /\ swept' # swept =>
             /\ wpc = "recv"
             /\ swept' = Append(swept, Head(queue))
             /\ queue' = Tail(queue)]_vars

\* The worker is inside a sweep, between its snapshot and its return.
WorkerInSweep == wpc \in {"eval", "store"}

AcceptedSet(line) == Len(line) >= 3 /\ line[1] = "set"

\* The handler's next step can be taken now, unless it needs the
\* `expressions` lock while another handler holds it; a handler that is
\* evaluating holds the lock it needs.
NotWaitingOnWorker(h) ==
  /\ hpc[h] = "read" =>
       \A line \in workload :
         IF AcceptedSet(line)
           THEN \/ ENABLED HandleConnection(h, line)
                \/ nsets >= MaxSets
                \/ elock \in Conns \ {h}
           ELSE ENABLED HandleConnection(h, line)
  /\ hpc[h] = "set_eval" => (ENABLED SetEvalLock(h) \/ elock \in Conns \ {h})
  /\ hpc[h] = "set_locked" => elock = h
  /\ hpc[h] = "set_store" => ENABLED SetStore(h)
  /\ hpc[h] = "set_send" => ENABLED SetSend(h)

\* C12: commands never wait on a sweep.  The worker holds the Formula lock
\* in no state (it takes and releases it within its snapshot step), so while
\* it is paused anywhere inside a sweep every get can be answered and every
\* step of a set can be taken; and a set returns with its announcement still
\* in the channel, before the sweep for it has started.
C12_NoWaitOnSweep ==
  /\ [](elock # "w")
  /\ [](WorkerInSweep => \A h \in Conns : NotWaitingOnWorker(h))
  /\ [][\A h \in Conns :
          (hpc[h] = "set_send" /\ hpc'[h] = "read" /\ wpc # "dead") =>
            /\ queue' # <<>>
            /\ queue'[Len(queue')] = hcell[h]
            /\ swept' = swept]_vars

\* C12's case: the worker is in the middle of a sweep while a handler
\* evaluates under the Formula lock, and a get was answered meanwhile.
C12_Witness ==
  /\ wpc = "eval"
  /\ \E h \in Conns : hpc[h] = "set_locked" /\ elock = h
  /\ LastIsGet
  /\ ~last.quiet
  /\ Len(last.out) = 1

\* The replies to the line handled last are what the protocol allows for it.
RepliedAsRequired ==
  LET line == last.line
      out == last.out
  IN /\ (line # <<>> /\ line[1] = "get") =>
          /\ Len(out) = 1
          /\ out[1].kind \in {"Value", "Error"}
          /\ out[1].kind = "Value" =>
               Len(line) >= 2 /\ out[1].cell = JoinSpaces(Tail(line))
     /\ Malformed(line) => (Len(out) = 1 /\ out[1].kind = "Error")
     /\ AcceptedSet(line) => out = <<>>

\* C13: reply protocol.  Every get line produces exactly one reply, a value
\* reply naming the requested cell or an error reply; every rejected or
\* unrecognized line produces exactly one error reply; an accepted set
\* produces none.  A reply is written in the step that read its line, by a
\* handler that reads its next line only afterwards, so the replies of a
\* connection follow the order of its commands.
C13_ReplyProtocol ==
  /\ [](last # NoLine => RepliedAsRequired)
  /\ [][last' # last =>
          \E h \in Conns :
            /\ hpc[h] = "read"
            /\ hpc'[h] \in {"read", "set_eval", "dead"}
            /\ \A g \in Conns \ {h} : hpc'[g] = hpc[g]]_vars

\* C13's case: a get of A1 was answered with a value reply naming A1 while
\* the other connection was inside a set.
C13_Witness ==
  /\ last.line = <<"get", "A1">>
  /\ last.out = <<ReplyValue("A1", ValInt(5))>>
  /\ ~last.quiet

\* What a sweep is about to store: the value of a key of its snapshot that it
\* has not yet written and that is not the announced cell, resolved against
\* the snapshot with an empty Visited set.
SweepStoresFromSnapshot ==
  /\ WorkerInSweep => wtodo \subseteq DOMAIN wsnap
  /\ wpc = "store" =>
       /\ wname # wcell
       /\ wname \in wtodo
       /\ wval = Resolve(wsnap, wname)

\* C14: sweep frame and coverage.  A sweep for an announcement never
\* modifies the Formula map and never writes the announced cell; it writes
\* each other key of the snapshot taken at its start exactly once, with the
\* value resolved from that snapshot, and it returns only when every such
\* key has been written; cells added to the Formula map later are not
\* written by it.
C14_SweepFrame ==
  /\ []SweepStoresFromSnapshot
  /\ [][/\ (wpc = "snapshot" /\ wpc' = "eval") =>
             /\ wsnap' = expressions
             /\ wtodo' = DOMAIN expressions
        /\ (wpc \in {"snapshot", "eval"} /\ wpc' # wpc) =>
             /\ expressions' = expressions
             /\ cell_values' = cell_values
        /\ (wpc = "store" /\ wpc' # wpc) =>
             /\ expressions' = expressions
             /\ cell_values' = Insert(cell_values, wname, wval)
             /\ wpc' = "eval" =>
                  /\ wtodo' = wtodo \ {wname}
                  /\ wsnap' = wsnap
                  /\ wcell' = wcell
             /\ wpc' = "recv" => (wtodo \ {wname}) \ {wcell} = {}]_vars

\* C14's case: in the middle of a sweep over a snapshot of two cells a third
\* cell has been added to the Formula map, and the sweep is about to store.
C14_Witness ==
  /\ wpc = "store"
  /\ Cardinality(DOMAIN wsnap) = 2
  /\ wcell \in DOMAIN wsnap
  /\ Cardinality(DOMAIN expressions) = 3

\* The Formula lock is held across steps only by a handler that is
\* evaluating (lib.rs:43).  Every other statement that takes a lock, the
\* Formula lock (lib.rs:37-40, 52) or the Value lock (lib.rs:28-33, 44-47,
\* 58-61), takes and releases it within its one step, from a point where its
\* thread holds no lock.
LocksDisjoint ==
  elock # "" => (elock \in Conns /\ hpc[elock] = "set_locked")

\* A thread that is not waiting for input can take its step, or waits for
\* the Formula lock while its holder can go on to release it.
NoThreadStuck ==
  LET HolderRuns(t) == elock \in Conns \ {t} /\ hpc[elock] = "set_locked"
  IN /\ \A h \in Conns :
          /\ hpc[h] = "set_eval" => (ENABLED SetEvalLock(h) \/ HolderRuns(h))
          /\ hpc[h] = "set_locked" => elock = h
          /\ hpc[h] = "set_store" => ENABLED SetStore(h)
          /\ hpc[h] = "set_send" => ENABLED SetSend(h)
     /\ wpc = "snapshot" => (ENABLED WorkerSnapshot \/ HolderRuns("w"))
     /\ wpc = "store" => ENABLED WorkerStore
     /\ (wpc = "recv" /\ queue # <<>>) => ENABLED WorkerRecv

\* C19: no thread holds the Formula lock and the Value lock at the same
\* time, no thread takes a lock it already holds, and no interleaving of
\* get, set and sweep steps reaches a state in which a thread is stuck.
C19_NoDoubleLock == LocksDisjoint /\ NoThreadStuck

\* C19's case: one handler evaluates under the Formula lock while the other
\* handler and the worker both wait for that lock.
C19_Witness ==
  /\ hpc["c1"] = "set_locked"
  /\ elock = "c1"
  /\ hpc["c2"] = "set_eval"
  /\ wpc = "snapshot"

\* While a handler evaluates it holds the Formula lock, and the cell it
\* wrote has a formula; what a sweep is about to store was resolved against
\* its snapshot.
EvaluatesUnderLock ==
  /\ \A h \in Conns :
       hpc[h] = "set_locked" => (elock = h /\ hcell[h] \in DOMAIN expressions)
  /\ wpc = "store" => wval = Resolve(wsnap, wname)

\* C20: every evaluation sees one unchanging Formula set.  No step changes
\* the Formula map while a handler is evaluating, the value the handler
\* obtains is the cell resolved against that map, and no step changes the
\* snapshot of a sweep in progress.
C20_StableFormulas ==
  /\ []EvaluatesUnderLock
  /\ [][/\ (\E h \in Conns : hpc[h] = "set_locked") => expressions' = expressions
        /\ \A h \in Conns :
             (hpc[h] = "set_locked" /\ hpc'[h] = "set_store") =>
               hval'[h] = Resolve(expressions, hcell[h])
        /\ (WorkerInSweep /\ WorkerInSweep') => wsnap' = wsnap]_vars

\* C20's case: a handler evaluates the cell it wrote after the other
\* connection has overwritten that cell's formula, while a sweep works on a
\* snapshot that the Formula map no longer equals.
C20_Witness ==
  /\ hpc["c1"] = "set_locked"
  /\ lastSet.conn = "c2"
  /\ lastSet.cell = hcell["c1"]
  /\ WorkerInSweep
  /\ wsnap # expressions

\* The cells that the formula of `cell` references, by name or inside a
\* range.
RefsOf(formulas, cell) ==
  IF cell \in DOMAIN formulas
    THEN {d \in EvalCells : References(formulas[cell], d)}
    ELSE {}

RECURSIVE ReachFrom(_, _, _)
ReachFrom(formulas, frontier, seen) ==
  LET next == (UNION {RefsOf(formulas, c) : c \in frontier}) \ seen
  IN IF next = {} THEN seen ELSE ReachFrom(formulas, next, seen \cup next)

\* The cells reached from `cell` through one or more references.
Reaches(formulas, cell) == ReachFrom(formulas, {cell}, {})

\* A reference cycle can be reached from `root`.
CyclicFrom(formulas, root) ==
  \E c \in Reaches(formulas, root) \cup {root} : c \in Reaches(formulas, c)

\* The value is the circular-dependency error or an engine error that
\* carries its text.
IsCircular(value) == value.tag = "Error" /\ value.msg.base = CircularDetected.base

\* The cells whose resolution is in progress.
ActivePath == {estack[i].cell : i \in DOMAIN estack}

\* C15: Visited equals the active path.  At every point of an evaluation
\* `visited` is exactly the set of cells whose resolution is in progress on
\* the recursion stack, no cell is on the stack twice, on return from
\* resolving a cell `visited` is what it was on entry (empty after the
\* top-level call), and a cell from which no reference cycle can be reached,
\* such as the top of a diamond, is never resolved to the circular error.
C15_VisitedIsActivePath ==
  /\ evisited = ActivePath
  /\ Cardinality(ActivePath) = Len(estack)
  /\ \A i \in DOMAIN estack : estack[i].entry = {estack[j].cell : j \in 1..(i - 1)}
  /\ ectl.op = "ret" => evisited = ectl.entry
  /\ ectl.op = "done" =>
       /\ evisited = {}
       /\ ~CyclicFrom(expressions, ectl.cell) => ~IsCircular(ectl.val)

\* The diamond A1 -> A2, A1 -> B1, A2 -> B2, B1 -> B2.
Diamond ==
  /\ DOMAIN expressions = EvalCells
  /\ expressions["A1"] = "A2+B1"
  /\ expressions["A2"] = "B2"
  /\ expressions["B1"] = "B2"
  /\ expressions["B2"] = "1"

\* C15's case: A1 at the top of the diamond has been resolved, B2 having
\* been reached through A2 and through B1, and the result is a number.
C15_Witness ==
  /\ Diamond
  /\ ectl = EvalDone("A1", ValInt(2))

\* The binding of a range name as specified: a 1-D sequence over rows
\* r1..r2 of column c1 when the columns are equal, over columns c1..c2 of
\* row r1 when only the rows are equal, otherwise rows r1..r2 outer and
\* columns c1..c2 inner; each element the cell resolved with `visited`.
ClaimedBinding(formulas, var_name, visited) ==
  LET c1 == column_name_to_number(LettersOf(var_name[1]))
      r1 == ParseU32(DigitsOf(var_name[1]))
      c2 == column_name_to_number(LettersOf(var_name[2]))
      r2 == ParseU32(DigitsOf(var_name[2]))
      Element(col, row) == calculate_cell_value(formulas, FormatCell(col, row), visited)
  IN IF c1 = c2
       THEN ArgVector([i \in 1..(r2 - r1 + 1) |-> Element(c1, r1 + i - 1)])
     ELSE IF r1 = r2
       THEN ArgVector([j \in 1..(c2 - c1 + 1) |-> Element(c1 + j - 1, r1)])
     ELSE ArgMatrix([i \in 1..(r2 - r1 + 1) |->
                       [j \in 1..(c2 - c1 + 1) |-> Element(c1 + j - 1, r1 + i - 1)]])

\* The evaluation is about to bind a range: every name of the Formula map
\* has been resolved.
BindsRange == ectl.op = "frame" /\ Top.inrange /\ Top.rnames = {}

\* C16: range binding.  The binding made for a range name with endpoints
\* (c1,r1) and (c2,r2) has the specified shape and order, endpoints
\* inclusive, and each element is the result of resolving that cell with
\* the current Visited set (the empty value for a cell without formula),
\* although the code resolves every cell of the Formula map to make it.
C16_RangeBinding ==
  [][BindsRange =>
       /\ Len(estack') = Len(estack)
       /\ Top'.args = Append(Top.args,
                             ClaimedBinding(expressions, Head(Top.todo), evisited))]_vars

\* C16's case: A1 = sum(A1_B2) with A2 = 1, B1 = 5 and no B2 has its range
\* bound as the matrix of rows <<A1, B1>> and <<A2, B2>>.
C16_Witness ==
  /\ ectl.op = "frame"
  /\ Len(estack) = 1
  /\ Top.cell = "A1"
  /\ Top.args = << ArgMatrix(<< <<ValError(CircularDetected), ValInt(5)>>,
                               <<ValInt(1), ValNone>> >>) >>

\* The cell lies inside the range that the name denotes.
InRange(var_name, cell) ==
  /\ column_name_to_number(LettersOf(var_name[1])) <= column_name_to_number(LettersOf(cell))
  /\ column_name_to_number(LettersOf(cell)) <= column_name_to_number(LettersOf(var_name[2]))
  /\ ParseU32(DigitsOf(var_name[1])) <= ParseU32(DigitsOf(cell))
  /\ ParseU32(DigitsOf(cell)) <= ParseU32(DigitsOf(var_name[2]))

\* The elements collected so far for the range that the innermost call is
\* binding: the element of the resolving cell itself is the circular error,
\* the element of a cell whose references lead to the resolving cell is an
\* error that carries it, and the element of a cell whose references lead to
\* no cell of the active path is that cell's ordinary value.
RangeElementsAsClaimed ==
  (ectl.op = "frame" /\ Top.inrange) =>
    \A x \in DOMAIN Top.rcells :
      InRange(Head(Top.todo), x) =>
        /\ x = Top.cell => Top.rcells[x] = ValError(CircularDetected)
        /\ Top.cell \in Reaches(expressions, x) => IsCircular(Top.rcells[x])
        /\ (x \notin evisited /\ Reaches(expressions, x) \cap evisited = {}) =>
             Top.rcells[x] = Resolve(expressions, x)

\* C17: cycle detection through ranges.  When a cell whose formula
\* references a range is resolved, the element bound for a range cell that
\* is the cell itself or whose resolution reaches it is, or is derived from,
\* the circular-dependency error, and the element of a range cell that
\* reaches no cell on the active path is its ordinary resolved value.
C17_RangeCycle == RangeElementsAsClaimed

\* C17's case: B1 = sum(A1_A2) is resolved with A1 = B1 and A2 = 1: the
\* element for A1, which leads back to B1, carries the circular error and
\* the element for A2 is 1.
C17_Witness ==
  /\ ectl.op = "frame"
  /\ Len(estack) = 1
  /\ Top.cell = "B1"
  /\ Top.inrange
  /\ "A1" \in DOMAIN expressions /\ expressions["A1"] = "B1"
  /\ {"A1", "A2"} \subseteq DOMAIN Top.rcells
  /\ IsCircular(Top.rcells["A1"])
  /\ Top.rcells["A2"] = ValInt(1)

\* C18: evaluator termination.  For every Formula set the server can hold,
\* also one with self-references, cycles and ranges that cover the resolving
\* cell, a top-level resolve of any cell ends with a value, so every
\* accepted set returns and every sweep completes: no handler ends inside
\* set_cell and the worker does not end.
C18_EvaluatorTerminates ==
  /\ \A c \in DOMAIN expressions : Resolve(expressions, c) # Panic
  /\ \A h \in Conns : hpc[h] # "dead"
  /\ wpc # "dead"

====
